---- MODULE Spec2Model ----
(***************************************************************************)
(* A model of pkg/dep/go_mod.go: GoStrategy.Rebase (the go.mod merge),     *)
(* GoStrategy.UpdateChecksums (the go.sum regeneration) and clientOps (the *)
(* sumdb client callbacks).                                                *)
(*                                                                         *)
(* Three specifications share the variables below:                         *)
(*   SpecRebase  one run of Rebase over two go.mod files;                  *)
(*   SpecSum     successive runs of UpdateChecksums over one output file;  *)
(*   SpecOps     calls of the clientOps methods.                           *)
(* File contents are sequences of lines; a go.mod line is a record naming  *)
(* its directive.                                                          *)
(***************************************************************************)
EXTENDS Integers, Sequences, FiniteSets, TLC

VARIABLES
  \* ---- Rebase
  upstreamFile,     \* what loadModFile(upstreamFile) yields: [ok, mod]
  downstreamFile,   \* what loadModFile(downstreamFile) yields: [ok, mod]
  outputFile,       \* content at the output path of Rebase: [exists, lines]
  prevOutput,       \* content at the output path before Rebase ran
  rebasePc,         \* "start" | "returned" | "panicked"
  rebaseErr,        \* the error Rebase returned, "" for nil
  \* ---- UpdateChecksums
  lockFile,         \* what loadModFile(lockFile) yields: [ok, require]
  sumFile,          \* content at the checksum output path: sequence of lines
  sumPc,            \* position of the running UpdateChecksums
  sumIdx,           \* index into originModFile.Require of the loop
  sumErr,           \* the error UpdateChecksums returned, "" for nil
  lookups,          \* the Lookup calls issued by this run, with their results
  wrote,            \* the lines this run wrote to outFile successfully
  writeFailed,      \* whether an Fprintln of this run failed
  runs,             \* number of runs started
  oldLines,         \* whether the output file held lines when this run started
  \* ---- clientOps
  opsCall,          \* the last clientOps call: [op, file]
  opsResult,        \* what it returned
  cfgWrites,        \* the files WriteConfig was called with
  cacheWrites       \* the files WriteCache was called with

rebaseVars == <<upstreamFile, downstreamFile, outputFile, prevOutput, rebasePc, rebaseErr>>
sumVars == <<lockFile, sumFile, sumPc, sumIdx, sumErr, lookups, wrote, writeFailed, runs, oldLines>>
opsVars == <<opsCall, opsResult, cfgWrites, cacheWrites>>
vars == <<rebaseVars, sumVars, opsVars>>

\* ------------------------------------------------------------------------
\* Sequence helpers
\* ------------------------------------------------------------------------

Min(a, b) == IF a <= b THEN a ELSE b

Range(s) == {s[i] : i \in 1..Len(s)}

Prefix(s, n) == SubSeq(s, 1, n)

RECURSIVE Flatten(_)
Flatten(ss) == IF ss = <<>> THEN <<>> ELSE Head(ss) \o Flatten(Tail(ss))

\* The sequences over S of length at most n whose entries have distinct paths.
RECURSIVE UniqueSeqs(_, _)
UniqueSeqs(S, n) ==
  IF n = 0 THEN {<<>>}
  ELSE LET shorter == UniqueSeqs(S, n - 1)
       IN shorter \cup
          {Append(p[1], p[2]) : p \in
             {q \in shorter \X S :
                /\ Len(q[1]) = n - 1
                /\ \A i \in 1..Len(q[1]) : q[1][i].path # q[2].path}}

\* ------------------------------------------------------------------------
\* golang.org/x/mod/semver.Compare, as used at go_mod.go:92
\* ------------------------------------------------------------------------

NumId(i) == [num |-> TRUE, i |-> i, s |-> ""]
StrId(s) == [num |-> FALSE, i |-> 0, s |-> s]

\* semver.parse on the canonical version strings the model uses.
parse(v) ==
  CASE v = "v1.0.0"              -> [major |-> 1, minor |-> 0, patch |-> 0, pre |-> <<>>, build |-> ""]
    [] v = "v1.2.0"              -> [major |-> 1, minor |-> 2, patch |-> 0, pre |-> <<>>, build |-> ""]
    [] v = "v1.3.0-beta"         -> [major |-> 1, minor |-> 3, patch |-> 0, pre |-> <<StrId("beta")>>, build |-> ""]
    [] v = "v1.3.0-rc.1"         -> [major |-> 1, minor |-> 3, patch |-> 0, pre |-> <<StrId("rc"), NumId(1)>>, build |-> ""]
    [] v = "v1.3.0-rc.2"         -> [major |-> 1, minor |-> 3, patch |-> 0, pre |-> <<StrId("rc"), NumId(2)>>, build |-> ""]
    [] v = "v1.3.0-rc"           -> [major |-> 1, minor |-> 3, patch |-> 0, pre |-> <<StrId("rc")>>, build |-> ""]
    [] v = "v1.3.0-1"            -> [major |-> 1, minor |-> 3, patch |-> 0, pre |-> <<NumId(1)>>, build |-> ""]
    [] v = "v1.3.0"              -> [major |-> 1, minor |-> 3, patch |-> 0, pre |-> <<>>, build |-> ""]
    [] v = "v1.3.0+incompatible" -> [major |-> 1, minor |-> 3, patch |-> 0, pre |-> <<>>, build |-> "+incompatible"]
    [] v = "v2.0.0"              -> [major |-> 2, minor |-> 0, patch |-> 0, pre |-> <<>>, build |-> ""]

\* ASCII order of the non-numeric prerelease identifiers in use.
AlphaRank(s) == CASE s = "beta" -> 1 [] s = "rc" -> 2

compareInt(x, y) == IF x = y THEN 0 ELSE IF x < y THEN -1 ELSE 1

RECURSIVE comparePrerelease(_, _)
comparePrerelease(x, y) ==
  IF x = y THEN 0
  ELSE IF x = <<>> THEN 1
  ELSE IF y = <<>> THEN -1
  ELSE LET dx == Head(x)
           dy == Head(y)
       IN IF dx # dy
          THEN IF dx.num # dy.num
               THEN (IF dx.num THEN -1 ELSE 1)
               ELSE IF dx.num
                    THEN compareInt(dx.i, dy.i)
                    ELSE compareInt(AlphaRank(dx.s), AlphaRank(dy.s))
          ELSE IF Tail(x) = <<>> THEN -1
          ELSE IF Tail(y) = <<>> THEN 1
          ELSE comparePrerelease(Tail(x), Tail(y))

Compare(v, w) ==
  LET pv == parse(v)
      pw == parse(w)
  IN IF compareInt(pv.major, pw.major) # 0 THEN compareInt(pv.major, pw.major)
     ELSE IF compareInt(pv.minor, pw.minor) # 0 THEN compareInt(pv.minor, pw.minor)
     ELSE IF compareInt(pv.patch, pw.patch) # 0 THEN compareInt(pv.patch, pw.patch)
     ELSE comparePrerelease(pv.pre, pw.pre)

\* ------------------------------------------------------------------------
\* golang.org/x/mod/modfile.File as Rebase builds it (go_mod.go:79-117)
\* ------------------------------------------------------------------------

NoVersion == ""

EmptyModFile ==
  [go |-> "", module |-> "", toolchain |-> "",
   require |-> <<>>, exclude |-> <<>>, replace |-> <<>>, retract |-> <<>>]

AddGoStmt(f, version) == [f EXCEPT !.go = version]

AddModuleStmt(f, path) == [f EXCEPT !.module = path]

AddToolchainStmt(f, name) == [f EXCEPT !.toolchain = name]

\* Appends a require line; no check against the lines already there.
AddNewRequire(f, path, vers, indirect) ==
  [f EXCEPT !.require = Append(@, [path |-> path, version |-> vers, indirect |-> indirect])]

\* Faulty variant: the downstream version also on a tie (>= for >).
targetVersionTieDownstream(upstreamPkg, downstreamPkg) ==
  IF Compare(downstreamPkg.version, upstreamPkg.version) >= 0
  THEN downstreamPkg.version
  ELSE upstreamPkg.version

\* go_mod.go:90-96: the downstream version only when strictly greater.
targetVersion(upstreamPkg, downstreamPkg) ==
  IF Compare(downstreamPkg.version, upstreamPkg.version) > 0
  THEN downstreamPkg.version
  ELSE upstreamPkg.version

\* Faulty variant: a downstream requirement upstream lacks is kept too.
mergeInnerKeepDownstream(f, downstreamPkg, upstreamReq, i) ==
  LET hits == {k \in i..Len(upstreamReq) : upstreamReq[k].path = downstreamPkg.path}
      RECURSIVE add(_, _)
      add(g, k) ==
        IF k > Len(upstreamReq) THEN g
        ELSE add(IF k \in hits
                 THEN AddNewRequire(g, upstreamReq[k].path,
                                    targetVersion(upstreamReq[k], downstreamPkg),
                                    upstreamReq[k].indirect)
                 ELSE g, k + 1)
  IN IF hits = {}
     THEN AddNewRequire(f, downstreamPkg.path, downstreamPkg.version, downstreamPkg.indirect)
     ELSE add(f, i)

\* go_mod.go:88-100: the inner loop, over upstreamModFile.Require[i..].
RECURSIVE mergeInner(_, _, _, _)
mergeInner(f, downstreamPkg, upstreamReq, i) ==
  IF i > Len(upstreamReq) THEN f
  ELSE LET upstreamPkg == upstreamReq[i]
           g == IF upstreamPkg.path = downstreamPkg.path
                THEN AddNewRequire(f, upstreamPkg.path,
                                   targetVersion(upstreamPkg, downstreamPkg),
                                   upstreamPkg.indirect)
                ELSE f
       IN mergeInner(g, downstreamPkg, upstreamReq, i + 1)

\* go_mod.go:87-101: the outer loop, over downstreamModFile.Require[j..].
RECURSIVE mergeRequires(_, _, _, _)
mergeRequires(f, upstreamReq, downstreamReq, j) ==
  IF j > Len(downstreamReq) THEN f
  ELSE mergeRequires(mergeInner(f, downstreamReq[j], upstreamReq, 1),
                     upstreamReq, downstreamReq, j + 1)

\* SetRequireSeparateIndirect: the direct requirements in one block, then the
\* indirect ones, each block in the order given.
SetRequireSeparateIndirect(f) ==
  [f EXCEPT !.require = SelectSeq(@, LAMBDA r : ~r.indirect)
                        \o SelectSeq(@, LAMBDA r : r.indirect)]

\* AddExclude: nothing is added when the same (path, version) is there already.
AddExclude(f, path, vers) ==
  IF \E i \in 1..Len(f.exclude) : f.exclude[i] = [path |-> path, version |-> vers]
  THEN f
  ELSE [f EXCEPT !.exclude = Append(@, [path |-> path, version |-> vers])]

\* AddReplace: the first existing replacement of oldPath (of any version when
\* oldVers is empty, else of oldVers) is rewritten to the new line; further
\* ones are zeroed and marked removed; with none, a line is appended.
ReplaceLine(oldPath, oldVers, newPath, newVers) ==
  [old |-> [path |-> oldPath, version |-> oldVers],
   new |-> [path |-> newPath, version |-> newVers]]

ZeroReplace ==
  [old |-> [path |-> "", version |-> ""], new |-> [path |-> "", version |-> ""],
   line |-> ReplaceLine("", "", "", "")]

replaceMatches(r, oldPath, oldVers) ==
  r.old.path = oldPath /\ (oldVers = NoVersion \/ r.old.version = oldVers)

AddReplace(f, oldPath, oldVers, newPath, newVers) ==
  LET rs == f.replace
      hits == {i \in 1..Len(rs) : replaceMatches(rs[i], oldPath, oldVers)}
      first == CHOOSE i \in hits : \A k \in hits : i <= k
      line == ReplaceLine(oldPath, oldVers, newPath, newVers)
  IN IF hits = {}
     THEN [f EXCEPT !.replace = Append(@, [old |-> line.old, new |-> line.new, line |-> line])]
     ELSE [f EXCEPT !.replace =
             [i \in 1..Len(rs) |->
                IF i = first THEN [rs[i] EXCEPT !.new = line.new, !.line = line]
                ELSE IF i \in hits THEN ZeroReplace
                ELSE rs[i]]]

AddRetract(f, low, high, rationale) ==
  [f EXCEPT !.retract = Append(@, [low |-> low, high |-> high, rationale |-> rationale])]

\* Cleanup: drops the zeroed entries.
Cleanup(f) ==
  [f EXCEPT !.require = SelectSeq(@, LAMBDA r : r.path # ""),
            !.exclude = SelectSeq(@, LAMBDA x : x.path # ""),
            !.replace = SelectSeq(@, LAMBDA r : r.old.path # ""),
            !.retract = SelectSeq(@, LAMBDA r : r.low # "" \/ r.high # "")]

RECURSIVE copyExcludes(_, _, _)
copyExcludes(f, xs, i) ==
  IF i > Len(xs) THEN f
  ELSE copyExcludes(AddExclude(f, xs[i].path, xs[i].version), xs, i + 1)

RECURSIVE copyReplaces(_, _, _)
copyReplaces(f, rs, i) ==
  IF i > Len(rs) THEN f
  ELSE copyReplaces(AddReplace(f, rs[i].old.path, rs[i].old.version,
                               rs[i].new.path, rs[i].new.version), rs, i + 1)

RECURSIVE copyRetracts(_, _, _)
copyRetracts(f, rs, i) ==
  IF i > Len(rs) THEN f
  ELSE copyRetracts(AddRetract(f, rs[i].low, rs[i].high, rs[i].rationale), rs, i + 1)

\* go_mod.go:79-85
newHeader(upstreamModFile) ==
  LET f1 == AddGoStmt(EmptyModFile, upstreamModFile.go)
      f2 == AddModuleStmt(f1, upstreamModFile.module)
  IN IF upstreamModFile.toolchain # ""
     THEN AddToolchainStmt(f2, upstreamModFile.toolchain)
     ELSE f2

\* go_mod.go:79-117: newModFile when Rebase reaches Format.
newModFile(upstreamModFile, downstreamModFile) ==
  LET f1 == newHeader(upstreamModFile)
      f2 == mergeRequires(f1, upstreamModFile.require, downstreamModFile.require, 1)
      f3 == SetRequireSeparateIndirect(f2)
      f4 == copyExcludes(f3, upstreamModFile.exclude, 1)
      f5 == copyReplaces(f4, upstreamModFile.replace, 1)
      f6 == copyRetracts(f5, upstreamModFile.retract, 1)
  IN Cleanup(f6)

\* Format: the file's lines, in the order the statements were added.
Format(f) ==
  <<[verb |-> "go", args |-> <<f.go>>], [verb |-> "module", args |-> <<f.module>>]>>
  \o (IF f.toolchain # "" THEN <<[verb |-> "toolchain", args |-> <<f.toolchain>>]>> ELSE <<>>)
  \o [i \in 1..Len(f.require) |->
        [verb |-> "require",
         args |-> <<f.require[i].path, f.require[i].version,
                    IF f.require[i].indirect THEN "// indirect" ELSE "">>]]
  \o [i \in 1..Len(f.exclude) |->
        [verb |-> "exclude", args |-> <<f.exclude[i].path, f.exclude[i].version>>]]
  \o [i \in 1..Len(f.replace) |->
        [verb |-> "replace",
         args |-> <<f.replace[i].line.old.path, f.replace[i].line.old.version, "=>",
                    f.replace[i].line.new.path, f.replace[i].line.new.version>>]]
  \o [i \in 1..Len(f.retract) |->
        [verb |-> "retract",
         args |-> <<f.retract[i].low, f.retract[i].high, f.retract[i].rationale>>]]

\* ------------------------------------------------------------------------
\* Inputs of Rebase
\* ------------------------------------------------------------------------

MaxReq == 2

Paths == {"A", "B", "C"}

UpstreamVersions == {"v1.2.0", "v1.3.0"}

DownstreamVersions == {"v1.2.0", "v1.3.0-rc.1", "v1.3.0+incompatible"}

UpstreamEntries ==
  [path : Paths, version : UpstreamVersions, indirect : BOOLEAN]

DownstreamEntries ==
  [path : Paths, version : DownstreamVersions, indirect : {FALSE}]

Req(p, v, ind) == [path |-> p, version |-> v, indirect |-> ind]

Mod(module, go, toolchain, require, extras) ==
  [go |-> go, module |-> module, toolchain |-> toolchain, require |-> require,
   exclude |-> extras.exclude, replace |-> extras.replace, retract |-> extras.retract]

Rep(op, ov, np, nv) ==
  [old |-> [path |-> op, version |-> ov], new |-> [path |-> np, version |-> nv]]

NoExtras == [exclude |-> <<>>, replace |-> <<>>, retract |-> <<>>]

\* The exclude, replace and retract directives an upstream go.mod may carry.
UpstreamExtras ==
  { NoExtras,
    [exclude |-> <<[path |-> "X", version |-> "v1.0.0"]>>,
     replace |-> <<Rep("X", "v1.0.0", "Y", "v1.2.0")>>,
     retract |-> <<[low |-> "v0.9.0", high |-> "v0.9.0", rationale |-> "broken"]>>],
    [exclude |-> <<[path |-> "X", version |-> "v1.0.0"], [path |-> "X", version |-> "v1.2.0"]>>,
     replace |-> <<Rep("X", NoVersion, "../x", NoVersion), Rep("X", "v1.0.0", "Y", "v1.2.0")>>,
     retract |-> <<[low |-> "v0.8.0", high |-> "v0.9.0", rationale |-> ""],
                   [low |-> "v0.9.1", high |-> "v0.9.1", rationale |-> "broken"]>>],
    [exclude |-> <<>>,
     replace |-> <<Rep("X", "v1.0.0", "Y", "v1.2.0"), Rep("X", NoVersion, "../x", NoVersion)>>,
     retract |-> <<>>],
    [exclude |-> <<>>,
     replace |-> <<Rep("X", "v1.0.0", "Y", "v1.2.0"), Rep("Z", "v1.0.0", "Y", "v1.2.0"),
                   Rep("X", "v1.0.0", "Y", "v1.3.0")>>,
     retract |-> <<>>] }

DownstreamExtras ==
  { NoExtras,
    [exclude |-> <<[path |-> "A", version |-> "v1.2.0"]>>,
     replace |-> <<Rep("A", NoVersion, "../fork", NoVersion)>>,
     retract |-> <<[low |-> "v0.1.0", high |-> "v0.2.0", rationale |-> "fork"]>>] }

\* A go.mod without a go directive parses, and its File.Go is nil.
NoGo == ""

Loaded(m) == [ok |-> TRUE, mod |-> m]

\* loadModFile failed: the file is missing, unreadable or does not parse.
NotLoaded == [ok |-> FALSE, mod |-> EmptyModFile]

OldOutput == <<[verb |-> "module", args |-> <<"old">>], [verb |-> "go", args |-> <<"1.19">>]>>

\* Wide requirement lists, one set of other directives.
UpstreamWide ==
  {Loaded(Mod("up", "1.21", "", r, NoExtras)) : r \in UniqueSeqs(UpstreamEntries, MaxReq)}

DownstreamWide ==
  {Loaded(Mod("down", "1.20", "", r, NoExtras)) : r \in UniqueSeqs(DownstreamEntries, MaxReq)}

\* The requirement lists of the documented example, every set of other directives.
UpstreamNarrow ==
  {NotLoaded, Loaded(Mod("up", NoGo, "", <<Req("A", "v1.2.0", TRUE)>>, NoExtras))} \cup
  {Loaded(Mod("up", "1.21", t, <<Req("A", "v1.2.0", TRUE), Req("B", "v2.0.0", FALSE)>>, e)) :
     t \in {"", "go1.21.5"}, e \in UpstreamExtras}

DownstreamNarrow ==
  {NotLoaded} \cup
  {Loaded(Mod(m, "1.20", "go1.20.1", <<Req("A", "v1.3.0", FALSE), Req("C", "v1.0.0", TRUE)>>, e)) :
     m \in {"down", "fork"}, e \in DownstreamExtras}

\* ------------------------------------------------------------------------
\* GoStrategy.Rebase (go_mod.go:68-129)
\* ------------------------------------------------------------------------

NoFile == [exists |-> FALSE, lines |-> <<>>]

FileOf(lines) == [exists |-> TRUE, lines |-> lines]

\* go_mod.go:119: the bytes Rebase hands to os.WriteFile.
payload(up, down) == Format(newModFile(up, down))

\* os.WriteFile(name, data, perm): the file is opened with O_TRUNC and data is
\* written in place. The outcomes: the open fails (file untouched); the write
\* stops after n lines, n < Len(data) (error); all of data is written.
WriteFileOutcomes(file, data) ==
  {[file |-> file, err |-> TRUE]}
  \cup {[file |-> FileOf(Prefix(data, n)), err |-> TRUE] : n \in 0..(Len(data) - 1)}
  \cup {[file |-> FileOf(data), err |-> FALSE]}

RebaseLoadUpstreamFails ==
  /\ rebasePc = "start"
  /\ ~upstreamFile.ok
  /\ rebasePc' = "returned"
  /\ rebaseErr' = "loading upstream go.mod file"
  /\ UNCHANGED <<upstreamFile, downstreamFile, outputFile, prevOutput>>
  /\ UNCHANGED <<sumVars, opsVars>>

RebaseLoadDownstreamFails ==
  /\ rebasePc = "start"
  /\ upstreamFile.ok
  /\ ~downstreamFile.ok
  /\ rebasePc' = "returned"
  /\ rebaseErr' = "loading downstream go.mod file"
  /\ UNCHANGED <<upstreamFile, downstreamFile, outputFile, prevOutput>>
  /\ UNCHANGED <<sumVars, opsVars>>

\* go_mod.go:80: upstreamModFile.Go.Version with a nil Go panics.
RebaseNilGo ==
  /\ rebasePc = "start"
  /\ upstreamFile.ok
  /\ downstreamFile.ok
  /\ upstreamFile.mod.go = NoGo
  /\ rebasePc' = "panicked"
  /\ UNCHANGED <<upstreamFile, downstreamFile, outputFile, prevOutput, rebaseErr>>
  /\ UNCHANGED <<sumVars, opsVars>>

RebaseWrite ==
  /\ rebasePc = "start"
  /\ upstreamFile.ok
  /\ downstreamFile.ok
  /\ upstreamFile.mod.go # NoGo
  /\ \E o \in WriteFileOutcomes(outputFile, payload(upstreamFile.mod, downstreamFile.mod)) :
       /\ outputFile' = o.file
       /\ rebaseErr' = IF o.err THEN "writing rebased go.mod file" ELSE ""
  /\ rebasePc' = "returned"
  /\ UNCHANGED <<upstreamFile, downstreamFile, prevOutput>>
  /\ UNCHANGED <<sumVars, opsVars>>

\* ------------------------------------------------------------------------
\* GoStrategy.UpdateChecksums (go_mod.go:133-167)
\* ------------------------------------------------------------------------

MaxRuns == 2

MaxLines == 1

\* The requirement lists of the lockfiles handed to UpdateChecksums.
LockFiles ==
  { [ok |-> FALSE, require |-> <<>>],
    [ok |-> TRUE, require |-> <<>>],
    [ok |-> TRUE, require |-> <<Req("A", "v1.2.0", FALSE)>>],
    [ok |-> TRUE, require |-> <<Req("B", "v2.0.0", TRUE), Req("A", "v1.3.0", FALSE)>>],
    [ok |-> TRUE, require |-> <<Req("C", "v1.0.0", FALSE), Req("A", "v1.2.0", FALSE),
                                Req("B", "v1.3.0-rc.1", TRUE)>>] }

\* originPkg.Mod.Version and originPkg.Mod.Version + "/go.mod" (go_mod.go:147,156).
ContentKey(pkg) == [path |-> pkg.path, version |-> <<pkg.version>>]

GoModKey(pkg) == [path |-> pkg.path, version |-> <<pkg.version, "/go.mod">>]

\* What sumdbClient.Lookup may answer for a key: an error, a detected security
\* violation, or up to MaxLines lines for that key.
LookupLines(key, n) == [i \in 1..n |-> [path |-> key.path, version |-> key.version, hash |-> i]]

LookupOutcomes(key) ==
  {[kind |-> "error", lines |-> <<>>], [kind |-> "security", lines |-> <<>>]}
  \cup {[kind |-> "ok", lines |-> LookupLines(key, n)] : n \in 0..MaxLines}

\* for _, line := range lines { fmt.Fprintln(outFile, line) }: each Fprintln
\* either appends its line or fails, and its result is not looked at. What
\* reaches the file is the lines whose Fprintln (those not in `failing`) worked.
Written(lines, failing) ==
  LET keep == {i \in 1..Len(lines) : i \notin failing}
      RECURSIVE pick(_)
      pick(i) == IF i > Len(lines) THEN <<>>
                 ELSE (IF i \in keep THEN <<lines[i]>> ELSE <<>>) \o pick(i + 1)
  IN pick(1)

\* Faulty variant: the file is opened without truncating it.
CreateKeep(file) == FileOf(file.lines)

\* os.Create(outputFile): the file is created, or truncated when it exists.
Create(file) == FileOf(<<>>)

SumIdle == sumPc \in {"idle", "returned", "exited"}

\* go_mod.go:134-145, and the return at 166 when Require is empty.
SumStart ==
  /\ SumIdle
  /\ runs < MaxRuns
  /\ runs' = runs + 1
  /\ oldLines' = (sumFile.lines # <<>>)
  /\ \E lf \in LockFiles, created \in BOOLEAN :
       /\ lockFile' = lf
       /\ lookups' = <<>>
       /\ wrote' = <<>>
       /\ writeFailed' = FALSE
       /\ sumIdx' = 1
       /\ IF ~lf.ok
          THEN /\ sumErr' = "while loading the lockfile"
               /\ sumPc' = "returned"
               /\ sumFile' = sumFile
          ELSE IF ~created
          THEN /\ sumErr' = "while opening the output file"
               /\ sumPc' = "returned"
               /\ sumFile' = sumFile
          ELSE /\ sumErr' = ""
               /\ sumFile' = Create(sumFile)
               /\ sumPc' = IF lf.require = <<>> THEN "returned" ELSE "content"
  /\ UNCHANGED <<rebaseVars, opsVars>>

\* Faulty variant: the entry is skipped and the run goes on.
OnLookupErrorSkip(errText, nextPc, nextIdx) ==
  /\ sumPc' = nextPc
  /\ sumIdx' = nextIdx
  /\ UNCHANGED <<sumFile, wrote, writeFailed, sumErr>>

\* What a Lookup error does to the run (go_mod.go:148-150, 157-159): return.
OnLookupError(errText, nextPc, nextIdx) ==
  /\ sumErr' = errText
  /\ sumPc' = "returned"
  /\ UNCHANGED <<sumFile, wrote, writeFailed, sumIdx>>

\* One Lookup and the loop over its lines; `next` is where the run goes on.
SumLookup(key, errText, nextPc, nextIdx) ==
  \E o \in LookupOutcomes(key) :
    /\ lookups' = Append(lookups, [key |-> key, kind |-> o.kind, lines |-> o.lines])
    /\ CASE o.kind = "error" -> OnLookupError(errText, nextPc, nextIdx)
         [] o.kind = "security" ->
              /\ sumPc' = "exited"
              /\ UNCHANGED <<sumFile, wrote, writeFailed, sumIdx, sumErr>>
         [] o.kind = "ok" ->
              \E failing \in SUBSET (1..Len(o.lines)) :
                /\ sumFile' = FileOf(sumFile.lines \o Written(o.lines, failing))
                /\ wrote' = wrote \o Written(o.lines, failing)
                /\ writeFailed' = (writeFailed \/ failing # {})
                /\ sumPc' = nextPc
                /\ sumIdx' = nextIdx
                /\ UNCHANGED sumErr
    /\ UNCHANGED <<lockFile, runs, oldLines>>
    /\ UNCHANGED <<rebaseVars, opsVars>>

\* go_mod.go:147-154
SumLookupContent ==
  /\ sumPc = "content"
  /\ SumLookup(ContentKey(lockFile.require[sumIdx]), "looking up module", "gomod", sumIdx)

\* go_mod.go:156-163, and the return at 166 after the last requirement.
SumLookupGoMod ==
  /\ sumPc = "gomod"
  /\ SumLookup(GoModKey(lockFile.require[sumIdx]), "looking up go.mod",
               IF sumIdx < Len(lockFile.require) THEN "content" ELSE "returned",
               IF sumIdx < Len(lockFile.require) THEN sumIdx + 1 ELSE sumIdx)

\* ------------------------------------------------------------------------
\* clientOps (go_mod.go:173-236)
\* ------------------------------------------------------------------------

\* A file name is the sequence of its "/"-separated parts: <<"a", "latest">>
\* is "a/latest", <<"", "latest">> is "/latest", <<"latest">> is "latest".
ConfigFiles ==
  { <<"key">>, <<"sum.golang.org", "latest">>, <<"", "latest">>, <<"latest">>,
    <<"sum.golang.org", "latest", "x">> }

CacheFiles == { <<"sum.golang.org", "lookup", "A@v1.2.0">>, <<"sum.golang.org", "tile", "8", "0", "000">> }

RemotePaths == { <<"", "lookup", "A@v1.2.0">>, <<"", "latest">> }

Datas == {"d0", "d1"}

\* The verifier key, split at its "+" signs.
VerifierKey == <<"sum.golang.org", "033de0ae", "Ac4zctda0e5eza+HJyk9SxEdh+s3Ux18htTTAD8OuAn8">>

\* Faulty variant: the suffix tested is "latest", without the slash.
HasSuffixLatestNoSlash(file) == Len(file) >= 1 /\ file[Len(file)] = "latest"

\* strings.HasSuffix(file, "/latest")
HasSuffixLatest(file) == Len(file) >= 2 /\ file[Len(file)] = "latest"

Ok(data) == [err |-> "", data |-> data, target |-> <<>>, status |-> 0]

Err(msg) == [err |-> msg, data |-> <<>>, target |-> <<>>, status |-> 0]

ErrStatus(target, status) == [err |-> "GET", data |-> <<>>, target |-> target, status |-> status]

ReadConfig(file) ==
  IF file = <<"key">> THEN Ok(<<VerifierKey>>)
  ELSE IF HasSuffixLatest(file) THEN Ok(<<>>)
  ELSE Err("unknown config")

ReadCache(file) == Err("no cache")

\* Ignore writes: WriteConfig returns nil, WriteCache returns nothing, and
\* clientOps has no field either could set.
WriteConfig(file, old, new) == Ok(<<>>)

WriteCache(file, data) == Ok(<<>>)

ReadLimit == 1048576

\* What the server may answer to http.Get: no response (transport error), or
\* a status and a body of `len` bytes whose delivery breaks after `failAt`
\* bytes (failAt = -1: it does not break).
BodyLens == {0, 1, ReadLimit, ReadLimit + 1, 2 * ReadLimit}

Responses ==
  {[getErr |-> TRUE, status |-> 0, len |-> 0, failAt |-> -1]}
  \cup {r \in [getErr : {FALSE}, status : {200, 404, 500}, len : BodyLens,
                 failAt : {-1, 0, ReadLimit - 1, ReadLimit}] :
          r.failAt < r.len}

\* name[:strings.Index(name, "+")], and "https://" + name + path
Target(path) == <<"https://", Head(VerifierKey)>> \o path

\* Faulty variant: ioutil.ReadAll(resp.Body), no limit.
LimitReadUnbounded(resp, limit) ==
  IF resp.failAt >= 0
  THEN [err |-> TRUE, n |-> resp.failAt]
  ELSE [err |-> FALSE, n |-> resp.len]

\* ioutil.ReadAll(io.LimitReader(resp.Body, 1<<20)): the bytes read are a
\* prefix of the body, so they are named by their number; the reader stops
\* at the limit without touching the body again.
LimitRead(resp, limit) ==
  IF resp.failAt >= 0 /\ resp.failAt < limit
  THEN [err |-> TRUE, n |-> resp.failAt]
  ELSE [err |-> FALSE, n |-> Min(resp.len, limit)]

ReadRemote(path, resp) ==
  IF resp.getErr THEN Err("get")
  ELSE IF resp.status # 200 THEN ErrStatus(Target(path), resp.status)
  ELSE LET r == LimitRead(resp, ReadLimit)
       IN IF r.err THEN Err("read") ELSE Ok(<<r.n>>)

NoResponse == [getErr |-> FALSE, status |-> 0, len |-> 0, failAt |-> -1]

Call(op, file, resp) == [op |-> op, file |-> file, resp |-> resp]

ReadConfigCall ==
  \E file \in ConfigFiles :
    /\ opsCall' = Call("ReadConfig", file, NoResponse)
    /\ opsResult' = ReadConfig(file)
    /\ UNCHANGED <<cfgWrites, cacheWrites, rebaseVars, sumVars>>

WriteConfigCall ==
  \E file \in ConfigFiles, old \in Datas, new \in Datas :
    /\ opsCall' = Call("WriteConfig", file, NoResponse)
    /\ opsResult' = WriteConfig(file, old, new)
    /\ cfgWrites' = cfgWrites \cup {file}
    /\ UNCHANGED <<cacheWrites, rebaseVars, sumVars>>

ReadCacheCall ==
  \E file \in CacheFiles :
    /\ opsCall' = Call("ReadCache", file, NoResponse)
    /\ opsResult' = ReadCache(file)
    /\ UNCHANGED <<cfgWrites, cacheWrites, rebaseVars, sumVars>>

WriteCacheCall ==
  \E file \in CacheFiles, data \in Datas :
    /\ opsCall' = Call("WriteCache", file, NoResponse)
    /\ opsResult' = WriteCache(file, data)
    /\ cacheWrites' = cacheWrites \cup {file}
    /\ UNCHANGED <<cfgWrites, rebaseVars, sumVars>>

ReadRemoteCall ==
  \E path \in RemotePaths, resp \in Responses :
    /\ opsCall' = Call("ReadRemote", path, resp)
    /\ opsResult' = ReadRemote(path, resp)
    /\ UNCHANGED <<cfgWrites, cacheWrites, rebaseVars, sumVars>>

\* ------------------------------------------------------------------------
\* Specifications
\* ------------------------------------------------------------------------

RebaseIdle ==
  /\ upstreamFile = NotLoaded
  /\ downstreamFile = NotLoaded
  /\ outputFile = NoFile
  /\ prevOutput = NoFile
  /\ rebasePc = "idle"
  /\ rebaseErr = ""

SumUnused ==
  /\ lockFile = [ok |-> FALSE, require |-> <<>>]
  /\ sumFile = NoFile
  /\ sumPc = "unused"
  /\ sumIdx = 1
  /\ sumErr = ""
  /\ lookups = <<>>
  /\ wrote = <<>>
  /\ writeFailed = FALSE
  /\ runs = 0
  /\ oldLines = FALSE

OpsUnused ==
  /\ opsCall = Call("none", <<>>, NoResponse)
  /\ opsResult = Ok(<<>>)
  /\ cfgWrites = {}
  /\ cacheWrites = {}

InitRebase ==
  /\ \/ /\ upstreamFile \in UpstreamWide
        /\ downstreamFile \in DownstreamWide
        /\ prevOutput = FileOf(OldOutput)
     \/ /\ upstreamFile \in UpstreamNarrow
        /\ downstreamFile \in DownstreamNarrow
        /\ prevOutput \in {NoFile, FileOf(OldOutput)}
  /\ outputFile = prevOutput
  /\ rebasePc = "start"
  /\ rebaseErr = ""
  /\ SumUnused
  /\ OpsUnused

NextRebase ==
  \/ RebaseLoadUpstreamFails
  \/ RebaseLoadDownstreamFails
  \/ RebaseNilGo
  \/ RebaseWrite

SpecRebase == InitRebase /\ [][NextRebase]_vars

InitSum ==
  /\ lockFile = [ok |-> FALSE, require |-> <<>>]
  /\ sumFile = NoFile
  /\ sumPc = "idle"
  /\ sumIdx = 1
  /\ sumErr = ""
  /\ lookups = <<>>
  /\ wrote = <<>>
  /\ writeFailed = FALSE
  /\ runs = 0
  /\ oldLines = FALSE
  /\ RebaseIdle
  /\ OpsUnused

NextSum ==
  \/ SumStart
  \/ SumLookupContent
  \/ SumLookupGoMod

SpecSum == InitSum /\ [][NextSum]_vars

InitOps ==
  /\ OpsUnused
  /\ RebaseIdle
  /\ SumUnused

NextOps ==
  \/ ReadConfigCall
  \/ WriteConfigCall
  \/ ReadCacheCall
  \/ WriteCacheCall
  \/ ReadRemoteCall

SpecOps == InitOps /\ [][NextOps]_vars

\* ------------------------------------------------------------------------
\* Claims about Rebase (checked under SpecRebase)
\* ------------------------------------------------------------------------

RebaseOk == rebasePc = "returned" /\ rebaseErr = ""

LinesOf(file, verb) == SelectSeq(file.lines, LAMBDA l : l.verb = verb)

\* The require lines of the written go.mod, read back.
ResultRequires ==
  LET ls == LinesOf(outputFile, "require")
  IN [i \in 1..Len(ls) |->
        Req(ls[i].args[1], ls[i].args[2], ls[i].args[3] = "// indirect")]

PathsOf(reqs) == {reqs[i].path : i \in 1..Len(reqs)}

UpstreamReq == upstreamFile.mod.require

DownstreamReq == downstreamFile.mod.require

\* C1: after a successful Rebase of two go.mod files with unique requirement
\* paths, the paths required by the written file are exactly those required by
\* both upstream and downstream, each on exactly one require line.
C1_RequiresAreIntersection ==
  RebaseOk =>
    /\ PathsOf(ResultRequires) = PathsOf(UpstreamReq) \cap PathsOf(DownstreamReq)
    /\ \A p \in PathsOf(ResultRequires) :
         Cardinality({i \in 1..Len(ResultRequires) : ResultRequires[i].path = p}) = 1

\* Upstream-only and downstream-only requirements were dropped, a shared one kept.
C1_Witness ==
  /\ RebaseOk
  /\ PathsOf(ResultRequires) # {}
  /\ PathsOf(UpstreamReq) \ PathsOf(DownstreamReq) # {}
  /\ PathsOf(DownstreamReq) \ PathsOf(UpstreamReq) # {}

\* C2: for every path required by both, the written version is one of the two,
\* is not lower than either under semver precedence, is upstream's when the two
\* compare equal, and the line is marked indirect exactly when upstream's is.
C2_MaxVersionUpstreamIndirect ==
  RebaseOk =>
    \A i \in 1..Len(ResultRequires), j \in 1..Len(UpstreamReq), k \in 1..Len(DownstreamReq) :
      LET r == ResultRequires[i]
          u == UpstreamReq[j]
          d == DownstreamReq[k]
      IN (r.path = u.path /\ r.path = d.path) =>
           /\ r.version \in {u.version, d.version}
           /\ Compare(r.version, u.version) >= 0
           /\ Compare(r.version, d.version) >= 0
           /\ (Compare(u.version, d.version) = 0 => r.version = u.version)
           /\ r.indirect = u.indirect

\* One shared path won by downstream's version while keeping upstream's
\* indirect mark, another tied between two different version strings.
C2_Witness ==
  /\ RebaseOk
  /\ \E r \in Range(ResultRequires), u \in Range(UpstreamReq), d \in Range(DownstreamReq) :
       /\ r.path = u.path /\ r.path = d.path
       /\ Compare(d.version, u.version) > 0
       /\ r.version = d.version
       /\ u.indirect /\ ~d.indirect /\ r.indirect
  /\ \E r \in Range(ResultRequires), u \in Range(UpstreamReq), d \in Range(DownstreamReq) :
       /\ r.path = u.path /\ r.path = d.path
       /\ Compare(d.version, u.version) = 0
       /\ d.version # u.version
       /\ r.version = u.version

\* The downstream files that differ from d in module path, excludes,
\* replacements or retractions only.
DownstreamVariants(d) ==
  {[d EXCEPT !.module = m, !.exclude = e.exclude, !.replace = e.replace, !.retract = e.retract] :
     m \in {"down", "fork"}, e \in DownstreamExtras \cup UpstreamExtras}

ArgsOf(file, verb) ==
  LET ls == LinesOf(file, verb) IN [i \in 1..Len(ls) |-> ls[i].args]

\* C3: the written file is the same for every downstream that differs only in
\* module path, excludes, replacements or retractions, and its module, go,
\* exclude, replace and retract lines are upstream's.
C3_DownstreamExtrasIgnored ==
  RebaseOk =>
    LET up == upstreamFile.mod
    IN /\ \A d2 \in DownstreamVariants(downstreamFile.mod) :
            payload(up, d2) = outputFile.lines
       /\ ArgsOf(outputFile, "module") = <<(<<up.module>>)>>
       /\ ArgsOf(outputFile, "go") = <<(<<up.go>>)>>
       /\ Range(ArgsOf(outputFile, "exclude"))
            = {<<x.path, x.version>> : x \in Range(up.exclude)}
       /\ ArgsOf(outputFile, "replace")
            = [i \in 1..Len(up.replace) |->
                 <<up.replace[i].old.path, up.replace[i].old.version, "=>",
                   up.replace[i].new.path, up.replace[i].new.version>>]
       /\ ArgsOf(outputFile, "retract")
            = [i \in 1..Len(up.retract) |->
                 <<up.retract[i].low, up.retract[i].high, up.retract[i].rationale>>]

\* The part of C3 that holds under SpecRebase: the written file does not depend
\* on downstream's module path, excludes, replacements or retractions.
DownstreamExtrasNotRead ==
  RebaseOk =>
    \A d2 \in DownstreamVariants(downstreamFile.mod) :
      payload(upstreamFile.mod, d2) = outputFile.lines

\* C5: the file at the output path is at all times its previous content or the
\* whole formatted merge.
C5_WriteIsAtomic ==
  (upstreamFile.ok /\ downstreamFile.ok /\ upstreamFile.mod.go # NoGo) =>
    outputFile \in {prevOutput, FileOf(payload(upstreamFile.mod, downstreamFile.mod))}

\* ------------------------------------------------------------------------
\* Claims about UpdateChecksums (checked under SpecSum)
\* ------------------------------------------------------------------------

\* The requirement a Lookup call of this run was issued for: two calls each.
ReqIndexOf(k) == (k + 1) \div 2

PathsAfter(idx) ==
  {lockFile.require[j].path : j \in (idx + 1)..Len(lockFile.require)}

\* C4: a failed lookup is the run's last: the run has returned an error,
\* no further Lookup was issued, and the output file holds no line of a
\* requirement that follows the one whose lookup failed.
C4_AbortOnFirstFailedLookup ==
  \A k \in 1..Len(lookups) :
    lookups[k].kind = "error" =>
      /\ k = Len(lookups)
      /\ sumPc = "returned"
      /\ sumErr \in {"looking up module", "looking up go.mod"}
      /\ \A i \in 1..Len(sumFile.lines) :
           sumFile.lines[i].path \notin PathsAfter(ReqIndexOf(k))

\* The second of three requirements failed after the first one's lines were written.
C4_Witness ==
  /\ Len(lockFile.require) = 3
  /\ Len(lookups) \in {3, 4}
  /\ lookups[Len(lookups)].kind = "error"
  /\ sumPc = "returned"
  /\ sumFile.lines # <<>>

\* C6: a run in which an Fprintln failed does not return nil.
C6_WriteFailureIsReported ==
  (sumPc = "returned" /\ writeFailed) => sumErr # ""

ExpectedKeys ==
  Flatten([j \in 1..Len(lockFile.require) |->
             <<ContentKey(lockFile.require[j]), GoModKey(lockFile.require[j])>>])

\* C7: when a run returns nil, its lookups were issued for (path, version) then
\* (path, version/go.mod) of each requirement in order, and the output file is
\* the concatenation of the lines they returned.
C7_OutputIsLookupLinesInOrder ==
  (sumPc = "returned" /\ sumErr = "" /\ runs > 0) =>
    /\ [k \in 1..Len(lookups) |-> lookups[k].key] = ExpectedKeys
    /\ sumFile.lines = Flatten([k \in 1..Len(lookups) |-> lookups[k].lines])

\* What holds of C7 under SpecSum: the same, for a run none of whose Fprintln failed.
OutputIsLookupLinesWhenWritesWork ==
  (sumPc = "returned" /\ sumErr = "" /\ runs > 0 /\ ~writeFailed) =>
    /\ [k \in 1..Len(lookups) |-> lookups[k].key] = ExpectedKeys
    /\ sumFile.lines = Flatten([k \in 1..Len(lookups) |-> lookups[k].lines])

SumOpened == runs > 0 /\ sumErr \notin {"while loading the lockfile", "while opening the output file"}

\* C10 as stated: once a run has loaded its lockfile, the output file holds
\* only lines that run wrote.
C10_LoadedRunOwnsOutput ==
  (runs > 0 /\ lockFile.ok) => sumFile.lines = wrote

\* C10, amended: once a run has loaded its lockfile and opened the output
\* file, the file holds only lines that run wrote; a run that cannot load its
\* lockfile or cannot open the output file returns an error and leaves the
\* file as it was.
C10_OpenedRunOwnsOutput ==
  /\ [](SumOpened => sumFile.lines = wrote)
  /\ [][(runs' = runs + 1 /\ (~lockFile'.ok \/ ~SumOpened'))
          => (sumPc' = "returned" /\ sumErr' # "" /\ sumFile' = sumFile)]_vars

\* A second run over a file that held lines has written its own.
C10_Witness ==
  /\ runs = 2
  /\ oldLines
  /\ SumOpened
  /\ sumPc = "returned"
  /\ sumErr = ""
  /\ wrote # <<>>
  /\ sumFile.lines = wrote

\* ------------------------------------------------------------------------
\* Claims about clientOps (checked under SpecOps)
\* ------------------------------------------------------------------------

OneMiB == 2^20

\* C8 as stated: ReadRemote returns an error when the request fails or the
\* status is not 200, naming the URL and the status; for a 200 response it
\* returns the first min(len(body), 1 MiB) bytes of the body.
C8_TruncatesAtOneMiB ==
  opsCall.op = "ReadRemote" =>
    LET resp == opsCall.resp
    IN /\ (resp.getErr \/ resp.status # 200) => opsResult.err # ""
       /\ (~resp.getErr /\ resp.status # 200) =>
            /\ opsResult.target = <<"https://", "sum.golang.org">> \o opsCall.file
            /\ opsResult.status = resp.status
       /\ (~resp.getErr /\ resp.status = 200) =>
            opsResult = Ok(<<Min(resp.len, OneMiB)>>)

BodyReadFails(resp) == resp.failAt >= 0 /\ resp.failAt < OneMiB

\* C8, amended: as stated, for a 200 response whose body is read without
\* error up to the first 1 MiB; when reading the body fails before that, the
\* read error is returned.
C8_TruncatesAtOneMiBUnlessReadFails ==
  opsCall.op = "ReadRemote" =>
    LET resp == opsCall.resp
    IN /\ (resp.getErr \/ resp.status # 200) => opsResult.err # ""
       /\ (~resp.getErr /\ resp.status # 200) =>
            /\ opsResult.target = <<"https://", "sum.golang.org">> \o opsCall.file
            /\ opsResult.status = resp.status
       /\ (~resp.getErr /\ resp.status = 200 /\ ~BodyReadFails(resp)) =>
            opsResult = Ok(<<Min(resp.len, OneMiB)>>)
       /\ (~resp.getErr /\ resp.status = 200 /\ BodyReadFails(resp)) =>
            opsResult.err # ""

\* A body longer than 1 MiB came back cut to 1 MiB, as a success.
C8_Witness ==
  /\ opsCall.op = "ReadRemote"
  /\ opsCall.resp.status = 200
  /\ opsCall.resp.len > OneMiB
  /\ opsResult = Ok(<<OneMiB>>)

\* C9: whatever WriteConfig and WriteCache calls came before, ReadCache fails
\* with "no cache", and ReadConfig returns the verifier key for "key", nothing
\* for a name ending in "/latest", and an error for any other name.
C9_ClientIsStateless ==
  /\ opsCall.op = "ReadCache" => opsResult = Err("no cache")
  /\ opsCall.op = "ReadConfig" =>
       IF opsCall.file = <<"key">>
       THEN opsResult.err = "" /\ opsResult.data = <<VerifierKey>>
       ELSE IF opsCall.file \in {<<"sum.golang.org", "latest">>, <<"", "latest">>}
       THEN opsResult.err = "" /\ opsResult.data = <<>>
       ELSE opsResult.err # ""

\* A ReadCache of a file WriteCache was given, after the key and a latest
\* position were written too.
C9_Witness ==
  /\ opsCall.op = "ReadCache"
  /\ opsCall.file \in cacheWrites
  /\ <<"key">> \in cfgWrites
  /\ <<"sum.golang.org", "latest">> \in cfgWrites
  /\ opsResult = Err("no cache")

====
